---- MODULE Spec2Model ----
(***************************************************************************)
(* Model of the authenticated-request pipeline of src/src/client.rs:       *)
(* the Spotify client builder, auth_headers, internal_call with its four   *)
(* wrappers (get/post/put/delete), ClientError::from_response and the      *)
(* serde decoding of ApiError.                                             *)
(*                                                                         *)
(* Strings whose content the code inspects (URLs, tokens, header values)   *)
(* are sequences of one-character strings.  Option<T> is a set with at     *)
(* most one element: None == {} and Some(x) == {x}.                        *)
(***************************************************************************)
EXTENDS Integers, Sequences, FiniteSets, TLC

VARIABLES
    prefix,                      \* Spotify.prefix
    access_token,                \* Spotify.access_token : Option<String>
    client_credentials_manager,  \* Spotify.client_credentials_manager : Option<..>
    built,                       \* build() has returned on this client value
    panicked,                    \* a panic!() / unwrap() failure has been raised
    calls,                       \* the in-flight internal_call futures
    idcall                       \* the get_id invocation: arguments and result

vars ==
    <<prefix, access_token, client_credentials_manager, built, panicked, calls, idcall>>

config == <<prefix, access_token, client_credentials_manager, built>>

(***************************************************************************)
(* Bounds of the model.                                                    *)
(***************************************************************************)
\* Longest Retry-After header value drawn for a response.
MaxHdrLen == 2

(***************************************************************************)
(* Option<T>                                                               *)
(***************************************************************************)
None == {}

Some(x) == {x}

IsSome(o) == o # {}

Unwrap(o) == CHOOSE x \in o : TRUE

(***************************************************************************)
(* Strings as sequences of characters.                                     *)
(***************************************************************************)
\* str::starts_with
StartsWith(s, p) ==
    /\ Len(s) >= Len(p)
    /\ \A i \in 1..Len(p) : s[i] = p[i]

\* All sequences over alphabet A of length at most n.
SeqsUpTo(A, n) == UNION { [1..k -> A] : k \in 0..n }

HTTP == <<"h", "t", "t", "p">>

\* The literal of line 118, "https://api.spotify.com/v1/".
DefaultPrefix ==
    <<"h","t","t","p","s",":","/","/","a","p","i",".","s","p","o","t","i","f","y",
      ".","c","o","m","/","v","1","/">>

\* The literal of line 171, "https://api.spotify.com/v1/".
HardCodedBase ==
    <<"h","t","t","p","s",":","/","/","a","p","i",".","s","p","o","t","i","f","y",
      ".","c","o","m","/","v","1","/">>

\* A prefix a caller may configure with prefix(): "http://l/".
CustomPrefix == <<"h","t","t","p",":","/","/","l","/">>

Prefixes == {DefaultPrefix, CustomPrefix}

\* Paths handed to the dispatcher: "me", "htt", "http://x", "https://y".
RelPath == <<"m","e">>

ShortPath == <<"h","t","t">>

AbsPath == <<"h","t","t","p",":","/","/","x">>

AbsPathS == <<"h","t","t","p","s",":","/","/","y">>

Paths == {RelPath, ShortPath, AbsPath, AbsPathS}

\* Bearer tokens: "t1", "t2", and "t\n", which is no legal header value.
TokenA == <<"t","1">>

TokenB == <<"t","2">>

TokenBad == <<"t","\n">>

Tokens == {TokenA, TokenB, TokenBad}

BearerSp == <<"B","e","a","r","e","r"," ">>

\* Bytes http::HeaderValue::from_str refuses (control characters).
ControlChars == {"\n", "\r"}

\* str::parse::<HeaderValue>() of line 175: Some(value) or None on an illegal byte.
ParseHeaderValue(s) ==
    IF \E i \in 1..Len(s) : s[i] \in ControlChars THEN None ELSE Some(s)

(***************************************************************************)
(* JSON values (serde_json::Value) and response bodies.                    *)
(***************************************************************************)
JStr(s) == [t |-> "str", s |-> s]

JNum(n) == [t |-> "num", n |-> n]

\* m is a function from key strings to JSON values.
JObj(m) == [t |-> "obj", m |-> m]

JArr(a) == [t |-> "arr", a |-> a]

\* A body whose bytes are no JSON document.
RawText(x) == [k |-> "raw", raw |-> x]

JsonText(j) == [k |-> "json", j |-> j]

\* readable = FALSE: reading the body from the connection fails.
Body(readable, text) == [readable |-> readable, text |-> text]

(***************************************************************************)
(* ClientError, ApiError and ClientResult (lines 39-102).                  *)
(***************************************************************************)
Unauthorized == [tag |-> "Unauthorized"]

RateLimited(o) == [tag |-> "RateLimited", retry_after |-> o]

Api(e) == [tag |-> "Api", err |-> e]

ParseJSON == [tag |-> "ParseJSON"]

\* ClientError::Request(reqwest::Error); what names the reqwest failure.
Request(what) == [tag |-> "Request", what |-> what]

\* impl From<StatusCode> for ClientError
StatusCodeErr(code) == [tag |-> "StatusCode", code |-> code]

Regular(status, message) ==
    [variant |-> "Regular", status |-> status, message |-> message]

Player(status, message, reason) ==
    [variant |-> "Player", status |-> status, message |-> message, reason |-> reason]

Ok(text) == [ok |-> TRUE, text |-> text]

Err(e) == [ok |-> FALSE, err |-> e]

(***************************************************************************)
(* #[derive(Deserialize)] enum ApiError (lines 85-100), decoded by         *)
(* serde_json: an externally tagged enum with two struct variants.         *)
(***************************************************************************)
U16Max == 65535

\* u16::deserialize
DeU16(j) == IF j.t = "num" /\ j.n >= 0 /\ j.n <= U16Max THEN Some(j.n) ELSE None

\* String::deserialize
DeString(j) == IF j.t = "str" THEN Some(j.s) ELSE None

\* The variants in declaration order, each with the names it answers to:
\* its own name and its #[serde(alias = "error")].
VariantNames == <<"Regular", "Player">>

VariantAliases == << {"Regular", "error"}, {"Player", "error"} >>

\* The generated variant-identifier visitor: a match whose arms are tried in
\* declaration order, so the first variant that lists the key wins.
VariantOf(key) ==
    LET hits == { i \in 1..Len(VariantNames) : key \in VariantAliases[i] }
    IN  IF hits = {} THEN None
        ELSE Some(VariantNames[CHOOSE i \in hits : \A h \in hits : i <= h])

\* visit_map of a struct variant: every field present and well typed; keys
\* that are not fields are skipped (no deny_unknown_fields).
DeRegularMap(m) ==
    IF /\ {"status", "message"} \subseteq DOMAIN m
       /\ IsSome(DeU16(m["status"]))
       /\ IsSome(DeString(m["message"]))
    THEN Some(Regular(Unwrap(DeU16(m["status"])), Unwrap(DeString(m["message"]))))
    ELSE None

DePlayerMap(m) ==
    IF /\ {"status", "message", "reason"} \subseteq DOMAIN m
       /\ IsSome(DeU16(m["status"]))
       /\ IsSome(DeString(m["message"]))
       /\ IsSome(DeString(m["reason"]))
    THEN Some(Player(Unwrap(DeU16(m["status"])), Unwrap(DeString(m["message"])),
                     Unwrap(DeString(m["reason"]))))
    ELSE None

\* visit_seq of a struct variant: the fields in declaration order, and
\* serde_json refuses elements left over.
DeRegularSeq(a) ==
    IF /\ Len(a) = 2
       /\ IsSome(DeU16(a[1]))
       /\ IsSome(DeString(a[2]))
    THEN Some(Regular(Unwrap(DeU16(a[1])), Unwrap(DeString(a[2]))))
    ELSE None

DePlayerSeq(a) ==
    IF /\ Len(a) = 3
       /\ IsSome(DeU16(a[1]))
       /\ IsSome(DeString(a[2]))
       /\ IsSome(DeString(a[3]))
    THEN Some(Player(Unwrap(DeU16(a[1])), Unwrap(DeString(a[2])),
                     Unwrap(DeString(a[3]))))
    ELSE None

\* VariantAccess::struct_variant: the variant's content is a map or a sequence.
DeVariant(variant, j) ==
    CASE j.t = "obj" ->
            IF variant = "Regular" THEN DeRegularMap(j.m) ELSE DePlayerMap(j.m)
      [] j.t = "arr" ->
            IF variant = "Regular" THEN DeRegularSeq(j.a) ELSE DePlayerSeq(j.a)
      [] OTHER -> None

\* DeApiError as #[serde(untagged)] would decode: the object itself is the
\* variant's content, wrapped or not.
DeApiErrorUntagged(j) ==
    IF j.t # "obj" THEN None
    ELSE LET inner == IF DOMAIN j.m = {"error"} THEN j.m["error"] ELSE j
         IN  IF inner.t # "obj" THEN None
             ELSE IF DePlayerMap(inner.m) # None THEN DePlayerMap(inner.m)
                  ELSE DeRegularMap(inner.m)

\* ApiError::deserialize: an object with exactly one key, the variant's name.
\* A JSON string names a unit variant, which neither variant is; any other
\* JSON value is no enum.
DeApiError(j) ==
    IF j.t = "obj" /\ Cardinality(DOMAIN j.m) = 1
    THEN LET key == CHOOSE x \in DOMAIN j.m : TRUE
             v   == VariantOf(key)
         IN  IF IsSome(v) THEN DeVariant(Unwrap(v), j.m[key]) ELSE None
    ELSE None

\* Response::json::<ApiError>() of line 68: read the whole body, then decode.
ResponseJson(body) ==
    IF body.readable /\ body.text.k = "json" THEN DeApiError(body.text.j) ELSE None

\* ResponseText with the read failure swallowed (unwrap_or_default).
ResponseTextOrDefault(body) ==
    IF body.readable THEN Ok(body.text) ELSE Ok(RawText(""))

\* Response::text() of line 194.
ResponseText(body) ==
    IF body.readable THEN Ok(body.text) ELSE Err(Request("body"))

(***************************************************************************)
(* The Retry-After header (lines 61-65).                                   *)
(***************************************************************************)
Digits == {"0", "1", "2", "3", "4", "5", "6", "7", "8", "9"}

DigitVal(ch) ==
    CASE ch = "0" -> 0 [] ch = "1" -> 1 [] ch = "2" -> 2 [] ch = "3" -> 3
      [] ch = "4" -> 4 [] ch = "5" -> 5 [] ch = "6" -> 6 [] ch = "7" -> 7
      [] ch = "8" -> 8 [] ch = "9" -> 9

RECURSIVE DecimalValue(_)
DecimalValue(d) ==
    IF d = <<>> THEN 0
    ELSE 10 * DecimalValue(SubSeq(d, 1, Len(d) - 1)) + DigitVal(d[Len(d)])

\* A byte outside visible ASCII, written as one symbol.
OpaqueByte == "x80"

\* HeaderValue::to_str().ok()
HeaderToStr(h) ==
    IF \E i \in 1..Len(h) : h[i] = OpaqueByte THEN None ELSE Some(h)

\* ParseUsize reading a sign as a signed parse would: '-' is skipped like '+'.
ParseUsizeSigned(s) ==
    LET d == IF s # <<>> /\ s[1] \in {"+", "-"} THEN Tail(s) ELSE s
    IN  IF d = <<>> \/ \E i \in 1..Len(d) : d[i] \notin Digits
        THEN None
        ELSE Some(DecimalValue(d))

\* str::parse::<usize>().ok(): an optional '+', then one or more decimal
\* digits.  A value beyond usize::MAX is refused too; header values of at
\* most MaxHdrLen characters stay far below it.
ParseUsize(s) ==
    LET d == IF s # <<>> /\ s[1] = "+" THEN Tail(s) ELSE s
    IN  IF d = <<>> \/ \E i \in 1..Len(d) : d[i] \notin Digits
        THEN None
        ELSE Some(DecimalValue(d))

\* .and_then(|header| header.to_str().ok()).and_then(|d| d.parse().ok())
RetryAfter(header) ==
    IF header = None THEN None
    ELSE LET str == HeaderToStr(Unwrap(header))
         IN  IF str = None THEN None ELSE ParseUsize(Unwrap(str))

(***************************************************************************)
(* ClientError::from_response (lines 57-74).                               *)
(***************************************************************************)
UNAUTHORIZED == 401

TOO_MANY_REQUESTS == 429

FORBIDDEN == 403

NOT_FOUND == 404

\* StatusCode::is_success
IsSuccess(status) == status >= 200 /\ status < 300

\* ReadsErrorBody with 400 decoded like 403 and 404.
ReadsErrorBodyWith400(status) == status = FORBIDDEN \/ status = NOT_FOUND \/ status = 400

\* Whether from_response awaits the body (the arm of lines 67-71).
ReadsErrorBody(status) == status = FORBIDDEN \/ status = NOT_FOUND

\* from_response without the 401 arm.
from_response_no_401(response) ==
    CASE response.status = TOO_MANY_REQUESTS ->
            RateLimited(RetryAfter(response.retry_after))
      [] response.status = FORBIDDEN \/ response.status = NOT_FOUND ->
            LET parsed == ResponseJson(response.body)
            IN  IF IsSome(parsed) THEN Api(Unwrap(parsed))
                ELSE StatusCodeErr(response.status)
      [] OTHER -> StatusCodeErr(response.status)

\* from_response passing the decode failure on (`?`) instead of falling back.
from_response_parse_error(response) ==
    CASE response.status = UNAUTHORIZED -> Unauthorized
      [] response.status = TOO_MANY_REQUESTS ->
            RateLimited(RetryAfter(response.retry_after))
      [] response.status = FORBIDDEN \/ response.status = NOT_FOUND ->
            LET parsed == ResponseJson(response.body)
            IN  IF IsSome(parsed) THEN Api(Unwrap(parsed)) ELSE ParseJSON
      [] OTHER -> StatusCodeErr(response.status)

\* from_response putting the HTTP status of the response into the Api error.
from_response_http_status(response) ==
    CASE response.status = UNAUTHORIZED -> Unauthorized
      [] response.status = TOO_MANY_REQUESTS ->
            RateLimited(RetryAfter(response.retry_after))
      [] ReadsErrorBody(response.status) ->
            LET parsed == ResponseJson(response.body)
            IN  IF IsSome(parsed)
                THEN Api([Unwrap(parsed) EXCEPT !.status = response.status])
                ELSE StatusCodeErr(response.status)
      [] OTHER -> StatusCodeErr(response.status)

from_response(response) ==
    CASE response.status = UNAUTHORIZED -> Unauthorized
      [] response.status = TOO_MANY_REQUESTS ->
            RateLimited(RetryAfter(response.retry_after))
      [] ReadsErrorBody(response.status) ->
            LET parsed == ResponseJson(response.body)
            IN  IF IsSome(parsed) THEN Api(Unwrap(parsed))
                ELSE StatusCodeErr(response.status)
      [] OTHER -> StatusCodeErr(response.status)

(***************************************************************************)
(* Inputs: what callers pass and what the collaborators answer.            *)
(***************************************************************************)
\* HashMap<String, String> payloads of get(), as sets of <<key, value>>.
ParamMaps == { {}, {<<"limit", "5">>} }

\* serde_json::Value payloads of post(), put() and delete().
JsonPayloads == { JObj([limit |-> JStr("5")]), JObj([uris |-> JStr("u")]) }

Params(p) == [kind |-> "params", params |-> p]

Json(j) == [kind |-> "json", json |-> j]

NoPayload == [kind |-> "none"]

\* The methods of get/post/put/delete, and one the match of lines 183-188
\* leaves alone.
WrapperMethods == {"GET", "POST", "PUT", "DELETE"}

OtherMethods == {"HEAD"}

\* Field values of the error objects a server may send.
StatusVals == {JNum(403), JNum(404), JNum(65536), JNum(-1), JStr("404")}

MessageVals == {JStr("not found"), JNum(0)}

ReasonVals == {JStr("NO_ACTIVE_DEVICE")}

FieldVals(key) ==
    CASE key = "status" -> StatusVals
      [] key = "message" -> MessageVals
      [] key = "reason" -> ReasonVals

\* Every object over a subset of the keys status, message, reason.
ErrorObjects ==
    UNION { { m \in [K -> StatusVals \cup MessageVals \cup ReasonVals] :
                \A key \in K : m[key] \in FieldVals(key) } :
            K \in SUBSET {"status", "message", "reason"} }

\* The same fields sent as an array, and two values that are neither.
ErrorArrays ==
    { <<>>, <<JNum(404)>>, <<JNum(404), JStr("not found")>>,
      <<JStr("not found"), JNum(404)>>,
      <<JNum(404), JStr("not found"), JStr("NO_ACTIVE_DEVICE")>>,
      <<JNum(404), JStr("not found"), JStr("NO_ACTIVE_DEVICE"), JNum(0)>> }

ErrorContents ==
    { JObj(m) : m \in ErrorObjects } \cup { JArr(a) : a \in ErrorArrays }
        \cup { JNum(404), JStr("not found") }

\* Keys an error object may be nested under.
WrapperKeys == {"error", "Regular", "Player", "errors"}

Wrap(key, j) == JObj([x \in {key} |-> j])

\* Bare error objects, wrapped ones, two-key wrappers and non-objects.
ErrorDocuments ==
    { JObj(m) : m \in ErrorObjects }
        \cup { Wrap(key, j) : key \in WrapperKeys, j \in ErrorContents }
        \cup { JObj([x \in {"error", "Player"} |-> j]) :
                 j \in { JObj([status |-> JNum(404), message |-> JStr("not found")]) } }
        \cup { JStr("Regular"), JStr("error"), JNum(404), JArr(<<>>) }

AllBodies ==
    { Body(FALSE, RawText("")), Body(TRUE, RawText("")), Body(TRUE, RawText("<html>")) }
        \cup { Body(TRUE, JsonText(j)) : j \in ErrorDocuments }

\* Retry-After header values: absent, or up to MaxHdrLen characters.
HeaderAlphabet == {"0", "3", "+", "-", "W", OpaqueByte}

RetryAfterHeaders == {None} \cup { Some(h) : h \in SeqsUpTo(HeaderAlphabet, MaxHdrLen) }

Statuses == {200, 204, 304, 400, 401, 403, 404, 429, 500}

Response(status, retry_after, body) ==
    [status |-> status, retry_after |-> retry_after, body |-> body]

\* The error bodies of section 8 of the specification and three others.
WrappedNotFound ==
    Wrap("error", JObj([status |-> JNum(404), message |-> JStr("not found")]))

BareNotFound == JObj([status |-> JNum(404), message |-> JStr("not found")])

TransportBodies ==
    { Body(FALSE, RawText("")), Body(TRUE, RawText("<html>")),
      Body(TRUE, JsonText(WrappedNotFound)), Body(TRUE, JsonText(BareNotFound)) }

TransportHeaders == {None, Some(<<"3", "0">>)}

(***************************************************************************)
(* The client: Spotify::default and the builder methods (lines 115-148).   *)
(***************************************************************************)
\* One internal_call future.  pc is where it is suspended:
\*   idle       no call
\*   created    the future exists and has not been polled
\*   resolving  awaiting get_access_token() (line 155)
\*   wait       awaiting builder.send() (line 190)
\*   text       awaiting response.text() (line 194)
\*   json       awaiting response.json() (line 68)
\*   done       the call has returned `result`
\*   panicked   the call has unwound
\* answer is what get_access_token() returned to this call; the n-fields
\* count its get_access_token() invocations, the requests it handed to the
\* transport, its from_response invocations and its body reads.  converted
\* is what convert_result::<target>() made of the text the call returned.
IdleCall ==
    [pc |-> "idle", method |-> "none", path |-> <<>>, payload |-> NoPayload,
     url |-> <<>>, token |-> None, request |-> None, response |-> None,
     result |-> None, answer |-> None, target |-> "none", converted |-> None,
     nresolved |-> 0, nsent |-> 0, nclassified |-> 0, nread |-> 0]

CallIds == DOMAIN calls

\* No get_id or get_uri invocation.  id is what get_id(type, raw) returned and
\* uri what get_uri(type, raw) returned; uri2 and uid are what get_uri and
\* get_id returned when called on that uri.
NoIdCall ==
    [type |-> "none", raw |-> <<>>, id |-> None, uri |-> None, uri2 |-> None,
     uid |-> None]

NoCallInFlight == \A c \in CallIds : calls[c].pc = "idle"

\* Spotify::default()
Default ==
    /\ prefix = DefaultPrefix
    /\ access_token = None
    /\ client_credentials_manager = None
    /\ built = FALSE
    /\ panicked = FALSE

\* The builder methods take self by value: no call borrows the client.
Prefix(p) ==
    /\ ~panicked
    /\ NoCallInFlight
    /\ prefix' = p
    /\ UNCHANGED <<access_token, client_credentials_manager, built, panicked, calls, idcall>>

AccessToken(token) ==
    /\ ~panicked
    /\ NoCallInFlight
    /\ access_token' = Some(token)
    /\ UNCHANGED <<prefix, client_credentials_manager, built, panicked, calls, idcall>>

ClientCredentialsManager ==
    /\ ~panicked
    /\ NoCallInFlight
    /\ client_credentials_manager' = Some("manager")
    /\ UNCHANGED <<prefix, access_token, built, panicked, calls, idcall>>

\* build() without its check.
BuildUnchecked ==
    /\ ~panicked
    /\ NoCallInFlight
    /\ built' = TRUE
    /\ UNCHANGED <<prefix, access_token, client_credentials_manager, panicked, calls, idcall>>

Build ==
    /\ ~panicked
    /\ NoCallInFlight
    /\ IF access_token = None /\ client_credentials_manager = None
       THEN panicked' = TRUE /\ UNCHANGED built
       ELSE built' = TRUE /\ UNCHANGED panicked
    /\ UNCHANGED <<prefix, access_token, client_credentials_manager, calls, idcall>>

(***************************************************************************)
(* internal_call (lines 163-198) and its wrappers (lines 199-215).         *)
(***************************************************************************)
\* Lines 169-172.
ResolveUrl(url) ==
    IF ~StartsWith(url, HTTP) THEN HardCodedBase \o url ELSE url

\* Bearer without the space after the scheme.
BearerNoSpace(token) == <<"B","e","a","r","e","r">> \o token

\* Line 160.
Bearer(token) == BearerSp \o token

\* PlacePayload with POST sent through builder.query like GET.
PlacePayloadPostAsQuery(method, payload) ==
    CASE method \in {"GET", "POST"} -> [query |-> Some(payload), json |-> None]
      [] method \in {"PUT", "DELETE"} -> [query |-> None, json |-> Some(payload)]
      [] OTHER -> [query |-> None, json |-> None]

\* Lines 183-188: where the payload goes.
PlacePayload(method, payload) ==
    CASE method = "GET" -> [query |-> Some(payload), json |-> None]
      [] method \in {"POST", "PUT", "DELETE"} -> [query |-> None, json |-> Some(payload)]
      [] OTHER -> [query |-> None, json |-> None]

\* Lines 174-188: the request handed to send().
BuildRequest(method, url, authorization, payload) ==
    [method |-> method, url |-> url,
     authorization |-> authorization, content_type |-> "application/json",
     query |-> PlacePayload(method, payload).query,
     json |-> PlacePayload(method, payload).json]

\* Creating the future: nothing runs until it is polled.
InternalCall(c, method, url, payload) ==
    /\ ~panicked
    /\ calls[c].pc = "idle"
    /\ calls' = [calls EXCEPT ![c] =
                    [IdleCall EXCEPT !.pc = "created", !.method = method,
                                     !.path = url, !.payload = payload]]
    /\ UNCHANGED <<config, panicked, idcall>>

Get(c, url, params) == InternalCall(c, "GET", url, Params(params))

Post(c, url, payload) == InternalCall(c, "POST", url, Json(payload))

Put(c, url, payload) == InternalCall(c, "PUT", url, Json(payload))

Delete(c, url, payload) == InternalCall(c, "DELETE", url, Json(payload))

\* internal_call with a method none of the four wrappers passes: the arm
\* of line 187.
InternalCallOther(c, method, url, payload) ==
    /\ method \notin WrapperMethods
    /\ InternalCall(c, method, url, payload)

\* Lines 175-190 once the token is known: the header value is parsed and
\* unwrapped, the request is built and handed to the transport.
SendWith(c, token, resolved) ==
    LET call == calls[c]
        url == ResolveUrl(call.path)
        header == ParseHeaderValue(Bearer(token))
    IN  IF header = None
        THEN /\ panicked' = TRUE
             /\ calls' = [calls EXCEPT ![c].pc = "panicked", ![c].url = url,
                                       ![c].token = Some(token),
                                       ![c].answer =
                                            IF resolved = 1 THEN Some(token) ELSE None,
                                       ![c].nresolved = @ + resolved]
        ELSE /\ calls' = [calls EXCEPT
                    ![c].pc = "wait", ![c].url = url, ![c].token = Some(token),
                    ![c].answer = IF resolved = 1 THEN Some(token) ELSE None,
                    ![c].nresolved = @ + resolved,
                    ![c].request = Some(BuildRequest(call.method, url,
                                                     Unwrap(header), call.payload)),
                    ![c].nsent = @ + 1]
             /\ UNCHANGED panicked

\* AuthHeaders returning an error where auth_headers panics.
AuthHeadersNoPanic(c) ==
    /\ ~panicked
    /\ calls[c].pc = "created"
    /\ IF access_token # None
       THEN SendWith(c, Unwrap(access_token), 0)
       ELSE IF client_credentials_manager # None
            THEN /\ calls' = [calls EXCEPT ![c].pc = "resolving",
                                           ![c].url = ResolveUrl(calls[c].path)]
                 /\ UNCHANGED panicked
            ELSE /\ calls' = [calls EXCEPT ![c].pc = "done",
                                           ![c].result = Some(Err(Unauthorized))]
                 /\ UNCHANGED panicked
    /\ UNCHANGED <<config, idcall>>

\* AuthHeaders handing the request to the transport before the manager is
\* asked for the token.
AuthHeadersSendsFirst(c) ==
    /\ ~panicked
    /\ calls[c].pc = "created"
    /\ IF access_token # None
       THEN SendWith(c, Unwrap(access_token), 0)
       ELSE IF client_credentials_manager # None
            THEN /\ calls' = [calls EXCEPT
                        ![c].pc = "resolving", ![c].url = ResolveUrl(calls[c].path),
                        ![c].nsent = @ + 1,
                        ![c].request = Some(BuildRequest(calls[c].method,
                                ResolveUrl(calls[c].path), BearerSp, calls[c].payload))]
                 /\ UNCHANGED panicked
            ELSE /\ panicked' = TRUE
                 /\ calls' = [calls EXCEPT ![c].pc = "panicked",
                                           ![c].url = ResolveUrl(calls[c].path)]
    /\ UNCHANGED <<config, idcall>>

\* AuthHeaders asking the manager first and using the static token only
\* when there is no manager.
AuthHeadersManagerFirst(c) ==
    /\ ~panicked
    /\ calls[c].pc = "created"
    /\ IF client_credentials_manager # None
       THEN /\ calls' = [calls EXCEPT ![c].pc = "resolving",
                                      ![c].url = ResolveUrl(calls[c].path)]
            /\ UNCHANGED panicked
       ELSE IF access_token # None
            THEN SendWith(c, Unwrap(access_token), 0)
            ELSE /\ panicked' = TRUE
                 /\ calls' = [calls EXCEPT ![c].pc = "panicked",
                                           ![c].url = ResolveUrl(calls[c].path)]
    /\ UNCHANGED <<config, idcall>>

\* The first poll: lines 169-176 with auth_headers (lines 150-161).
AuthHeaders(c) ==
    /\ ~panicked
    /\ calls[c].pc = "created"
    /\ IF access_token # None
       THEN SendWith(c, Unwrap(access_token), 0)
       ELSE IF client_credentials_manager # None
            THEN /\ calls' = [calls EXCEPT ![c].pc = "resolving",
                                           ![c].url = ResolveUrl(calls[c].path)]
                 /\ UNCHANGED panicked
            ELSE /\ panicked' = TRUE
                 /\ calls' = [calls EXCEPT ![c].pc = "panicked",
                                           ![c].url = ResolveUrl(calls[c].path)]
    /\ UNCHANGED <<config, idcall>>

\* GetAccessTokenReturns with a token cache on the client: the answer is
\* dropped when another call already holds a token.
GetAccessTokenReturnsCached(c, token) ==
    /\ ~panicked
    /\ calls[c].pc = "resolving"
    /\ LET holders == { d \in CallIds \ {c} : calls[d].token # None }
           used == IF holders = {} THEN token
                   ELSE Unwrap(calls[CHOOSE d \in holders : TRUE].token)
       IN  calls' = [calls EXCEPT
                ![c].pc = "wait", ![c].token = Some(used), ![c].answer = Some(token),
                ![c].nresolved = @ + 1, ![c].nsent = @ + 1,
                ![c].request = Some(BuildRequest(calls[c].method, calls[c].url,
                                                 Bearer(used), calls[c].payload))]
    /\ UNCHANGED <<config, panicked, idcall>>

\* get_access_token() returns (line 155): the manager answers any token.
GetAccessTokenReturns(c, token) ==
    /\ ~panicked
    /\ calls[c].pc = "resolving"
    /\ SendWith(c, token, 1)
    /\ UNCHANGED <<config, idcall>>

\* SendFails with the failure swallowed: the call returns an empty text.
SendFailsSwallowed(c) ==
    /\ ~panicked
    /\ calls[c].pc = "wait"
    /\ calls' = [calls EXCEPT ![c].pc = "done",
                              ![c].result = Some(Ok(RawText("")))]
    /\ UNCHANGED <<config, panicked, idcall>>

\* SendFails with a retry: the failed call starts over instead of returning.
SendFailsRetry(c) ==
    /\ ~panicked
    /\ calls[c].pc = "wait"
    /\ calls' = [calls EXCEPT ![c].pc = "created"]
    /\ UNCHANGED <<config, panicked, idcall>>

\* send() fails (line 190): the error is returned with `?`.
SendFails(c) ==
    /\ ~panicked
    /\ calls[c].pc = "wait"
    /\ calls' = [calls EXCEPT ![c].pc = "done",
                              ![c].result = Some(Err(Request("send")))]
    /\ UNCHANGED <<config, panicked, idcall>>

\* send() delivers a response (lines 190-197); from_response returns at
\* once unless the status makes it read the body.
\* The transport answers with any status, a Retry-After header of `headers`
\* and a body of `bodies`.
SendReturns(c, headers, bodies) ==
    /\ ~panicked
    /\ calls[c].pc = "wait"
    /\ \E status \in Statuses, header \in headers, body \in bodies :
         LET response == Response(status, header, body) IN
         calls' =
           IF IsSuccess(response.status)
           THEN [calls EXCEPT ![c].pc = "text", ![c].response = Some(response)]
           ELSE IF ReadsErrorBody(response.status)
                THEN [calls EXCEPT ![c].pc = "json", ![c].response = Some(response),
                                   ![c].nclassified = @ + 1]
                ELSE [calls EXCEPT ![c].pc = "done", ![c].response = Some(response),
                                   ![c].nclassified = @ + 1,
                                   ![c].result = Some(Err(from_response(response)))]
    /\ UNCHANGED <<config, panicked, idcall>>

\* TextReturns reading one response buffer shared by the client's calls.
TextReturnsShared(c) ==
    /\ ~panicked
    /\ calls[c].pc = "text"
    /\ LET holders == { d \in CallIds : calls[d].response # None }
           shared == calls[CHOOSE d \in holders : \A e \in holders : d <= e].response
       IN  calls' = [calls EXCEPT
                ![c].pc = "done", ![c].nread = @ + 1,
                ![c].result = Some(ResponseText(Unwrap(shared).body))]
    /\ UNCHANGED <<config, panicked, idcall>>

\* response.text() completes (line 194).
TextReturns(c) ==
    /\ ~panicked
    /\ calls[c].pc = "text"
    /\ calls' = [calls EXCEPT
                    ![c].pc = "done", ![c].nread = @ + 1,
                    ![c].result = Some(ResponseText(Unwrap(calls[c].response).body))]
    /\ UNCHANGED <<config, panicked, idcall>>

\* response.json() completes inside from_response (lines 67-71, 196).
JsonReturns(c) ==
    /\ ~panicked
    /\ calls[c].pc = "json"
    /\ calls' = [calls EXCEPT
                    ![c].pc = "done", ![c].nread = @ + 1,
                    ![c].result = Some(Err(from_response(Unwrap(calls[c].response))))]
    /\ UNCHANGED <<config, panicked, idcall>>

\* The types convert_result is asked for: ApiError (lines 85-100) and
\* serde_json::Value, which every JSON document decodes into.
Targets == {"ApiError", "Value"}

\* serde_json::from_str::<T>(input): the text must be one JSON document, and
\* the document must decode into T.
FromStr(target, input) ==
    IF input.k # "json" THEN None
    ELSE IF target = "Value" THEN Some(input.j)
    ELSE DeApiError(input.j)

Decoded(value) == [ok |-> TRUE, value |-> value]

\* convert_result that returns a null value where decoding fails.
convert_result_or_default(target, input) ==
    IF IsSome(FromStr(target, input))
    THEN Decoded(Unwrap(FromStr(target, input)))
    ELSE Decoded(JStr("null"))

\* convert_result, lines 1988-1990: the serde_json error becomes
\* ClientError::ParseJSON (the #[from] of line 49).
convert_result(target, input) ==
    IF IsSome(FromStr(target, input))
    THEN Decoded(Unwrap(FromStr(target, input)))
    ELSE Err(ParseJSON)

\* An endpoint wrapper decodes the text its dispatch returned.
ConvertResult(c, target) ==
    /\ ~panicked
    /\ calls[c].pc = "done"
    /\ calls[c].result # None
    /\ Unwrap(calls[c].result).ok
    /\ calls[c].converted = None
    /\ calls' = [calls EXCEPT
                    ![c].target = target,
                    ![c].converted =
                        Some(convert_result(target, Unwrap(calls[c].result).text))]
    /\ UNCHANGED <<config, panicked, idcall>>

\* The caller takes the result; the future is dropped.
Return(c) ==
    /\ ~panicked
    /\ calls[c].pc = "done"
    /\ calls' = [calls EXCEPT ![c] = IdleCall]
    /\ UNCHANGED <<config, panicked, idcall>>

(***************************************************************************)
(* Specifications.                                                         *)
(***************************************************************************)
\* One client, one call at a time.
Init ==
    /\ Default
    /\ calls = [c \in {1} |-> IdleCall]
    /\ idcall = NoIdCall

Next ==
    \/ \E p \in Prefixes : Prefix(p)
    \/ \E t \in Tokens : AccessToken(t)
    \/ ClientCredentialsManager
    \/ Build
    \/ \E c \in CallIds, url \in Paths, params \in ParamMaps : Get(c, url, params)
    \/ \E c \in CallIds, url \in Paths, payload \in JsonPayloads : Post(c, url, payload)
    \/ \E c \in CallIds, url \in Paths, payload \in JsonPayloads : Put(c, url, payload)
    \/ \E c \in CallIds, url \in Paths, payload \in JsonPayloads : Delete(c, url, payload)
    \/ \E c \in CallIds, m \in OtherMethods, url \in Paths, payload \in JsonPayloads :
            InternalCallOther(c, m, url, Json(payload))
    \/ \E c \in CallIds : AuthHeaders(c)
    \/ \E c \in CallIds, t \in Tokens : GetAccessTokenReturns(c, t)
    \/ \E c \in CallIds : SendFails(c)
    \/ \E c \in CallIds : SendReturns(c, TransportHeaders, TransportBodies)
    \/ \E c \in CallIds : TextReturns(c)
    \/ \E c \in CallIds : JsonReturns(c)
    \/ \E c \in CallIds : Return(c)

Spec == Init /\ [][Next]_vars

\* The collaborators answer and the caller keeps polling its future: the
\* first poll happens, the manager answers a pending get_access_token(), the
\* transport answers a pending send() with a response or a failure, and a
\* pending body read completes.
Answering ==
    \A c \in {1} :
        /\ WF_vars(AuthHeaders(c))
        /\ WF_vars(\E t \in Tokens : GetAccessTokenReturns(c, t))
        /\ WF_vars(SendFails(c) \/ SendReturns(c, TransportHeaders, TransportBodies))
        /\ WF_vars(TextReturns(c))
        /\ WF_vars(JsonReturns(c))

SpecLive == Init /\ [][Next]_vars /\ Answering

\* The classifier over every response of the bounded domain: a call that
\* awaits send() on a built client, answered by any response.
WaitingCall ==
    [IdleCall EXCEPT
        !.pc = "wait", !.method = "GET", !.path = RelPath, !.payload = Params({}),
        !.url = ResolveUrl(RelPath), !.token = Some(TokenA), !.nsent = 1,
        !.request = Some(BuildRequest("GET", ResolveUrl(RelPath), Bearer(TokenA),
                                      Params({})))]

InitClassify ==
    /\ prefix = DefaultPrefix
    /\ access_token = Some(TokenA)
    /\ client_credentials_manager = None
    /\ built = TRUE
    /\ panicked = FALSE
    /\ calls = [c \in {1} |-> WaitingCall]
    /\ idcall = NoIdCall

NextClassify ==
    \/ \E c \in CallIds : SendReturns(c, RetryAfterHeaders, AllBodies)
    \/ \E c \in CallIds : TextReturns(c)
    \/ \E c \in CallIds : JsonReturns(c)
    \/ \E c \in CallIds, target \in Targets : ConvertResult(c, target)

SpecClassify == InitClassify /\ [][NextClassify]_vars

\* Two dispatches in flight on one built client, whose token comes from the
\* static token or from the manager.
ConcBodies == { Body(FALSE, RawText("")), Body(TRUE, JsonText(WrappedNotFound)) }

InitConc ==
    /\ prefix = DefaultPrefix
    /\ access_token \in {None, Some(TokenA)}
    /\ client_credentials_manager = Some("manager")
    /\ built = TRUE
    /\ panicked = FALSE
    /\ calls = [c \in {1, 2} |-> IdleCall]
    /\ idcall = NoIdCall

NextConc ==
    \/ \E c \in CallIds, params \in ParamMaps : Get(c, RelPath, params)
    \/ \E c \in CallIds : Post(c, AbsPath, JObj([limit |-> JStr("5")]))
    \/ \E c \in CallIds : AuthHeaders(c)
    \/ \E c \in CallIds, t \in Tokens : GetAccessTokenReturns(c, t)
    \/ \E c \in CallIds : SendFails(c)
    \/ \E c \in CallIds : SendReturns(c, {None}, ConcBodies)
    \/ \E c \in CallIds : TextReturns(c)
    \/ \E c \in CallIds : JsonReturns(c)
    \/ \E c \in CallIds : Return(c)

SpecConc == InitConc /\ [][NextConc]_vars

(***************************************************************************)
(* Identifier normalisation: get_id (lines 2013-2044).                     *)
(*                                                                         *)
(* An identifier is a sequence over IdAlphabet: the two separators and a   *)
(* few separator-free words.  No word is a prefix of another, so two       *)
(* sequences are equal exactly when the strings they spell are equal.      *)
(***************************************************************************)
MaxIdLen == 5

COLON == ":"

SLASH == "/"

IdAlphabet == {COLON, SLASH, "spotify", "track", "album", "x"}

Types == {"Track", "Album", "Artist"}

\* Type::as_str
TypeAsStr(_type) ==
    CASE _type = "Track" -> <<"track">>
      [] _type = "Album" -> <<"album">>
      [] _type = "Artist" -> <<"artist">>

\* str::split(sep).collect(): the fields between the separators, empty fields
\* kept; a string without the separator is one field.
RECURSIVE Split(_, _)
Split(s, sep) ==
    IF \A i \in 1..Len(s) : s[i] # sep
    THEN <<s>>
    ELSE LET i == CHOOSE k \in 1..Len(s) :
                      s[k] = sep /\ \A j \in 1..(k - 1) : s[j] # sep
         IN  <<SubSeq(s, 1, i - 1)>> \o Split(SubSeq(s, i + 1, Len(s)), sep)

\* get_id whose last line returns an empty string.
get_id_or_empty(_type, id) ==
    LET fields == Split(id, COLON)
        len == Len(fields)
        sfields == Split(id, SLASH)
        slen == Len(sfields)
    IN  IF len >= 3 /\ TypeAsStr(_type) = fields[len - 1]
        THEN fields[len]
        ELSE IF slen >= 3 /\ TypeAsStr(_type) = sfields[slen - 1]
             THEN sfields[slen]
             ELSE <<>>

\* get_id returning the field before the last one.
get_id_type_field(_type, id) ==
    LET fields == Split(id, COLON)
        len == Len(fields)
        sfields == Split(id, SLASH)
        slen == Len(sfields)
    IN  IF len >= 3 /\ TypeAsStr(_type) = fields[len - 1]
        THEN fields[len - 1]
        ELSE IF slen >= 3 /\ TypeAsStr(_type) = sfields[slen - 1]
             THEN sfields[slen - 1]
             ELSE id

\* get_id that tries the '/' split only when the input has no ':'.
get_id_colon_first(_type, id) ==
    LET fields == Split(id, COLON)
        len == Len(fields)
        sfields == Split(id, SLASH)
        slen == Len(sfields)
    IN  IF len >= 2
        THEN IF len >= 3 /\ TypeAsStr(_type) = fields[len - 1]
             THEN fields[len]
             ELSE id
        ELSE IF slen >= 3 /\ TypeAsStr(_type) = sfields[slen - 1]
             THEN sfields[slen]
             ELSE id

\* get_id without the '/' split of lines 2029-2042.
get_id_no_slash(_type, id) ==
    LET fields == Split(id, COLON)
        len == Len(fields)
    IN  IF len >= 3 /\ TypeAsStr(_type) = fields[len - 1]
        THEN fields[len]
        ELSE id

\* get_id that cuts a mismatching identifier down to its last ':' field.
get_id_strip(_type, id) ==
    LET fields == Split(id, COLON)
        len == Len(fields)
        sfields == Split(id, SLASH)
        slen == Len(sfields)
    IN  IF len >= 3
        THEN fields[len]
        ELSE IF slen >= 3 /\ TypeAsStr(_type) = sfields[slen - 1]
             THEN sfields[slen]
             ELSE id

\* get_id, lines 2013-2044.  A mismatch in the ':' split logs an error and
\* goes on to the '/' split (lines 2018-2025 have no return).
get_id(_type, id) ==
    LET fields == Split(id, COLON)
        len == Len(fields)
        sfields == Split(id, SLASH)
        slen == Len(sfields)
    IN  IF len >= 3 /\ TypeAsStr(_type) = fields[len - 1]
        THEN fields[len]
        ELSE IF slen >= 3 /\ TypeAsStr(_type) = sfields[slen - 1]
             THEN sfields[slen]
             ELSE id

\* The literal of line 2006, "spotify:".
SpotifyColon == <<"spotify", COLON>>

\* get_uri joining with '/'.
get_uri_slashes(_type, _id) ==
    <<"spotify", SLASH>> \o TypeAsStr(_type) \o <<SLASH>> \o get_id(_type, _id)

\* get_uri returning the bare id.
get_uri_bare(_type, _id) == get_id(_type, _id)

\* get_uri that appends its argument as it is.
get_uri_raw(_type, _id) ==
    SpotifyColon \o TypeAsStr(_type) \o <<COLON>> \o _id

\* get_uri, lines 2005-2011.
get_uri(_type, _id) ==
    SpotifyColon \o TypeAsStr(_type) \o <<COLON>> \o get_id(_type, _id)

\* One invocation of get_id(&self, _type, id).
GetId ==
    /\ ~panicked
    /\ idcall.id = None
    /\ idcall' = [idcall EXCEPT !.id = Some(get_id(idcall.type, idcall.raw))]
    /\ UNCHANGED <<config, panicked, calls>>

\* The client of the tests (lines 2054 and 2086) and one pending invocation
\* for every type and every identifier of the bounded domain.
InitId ==
    /\ prefix = DefaultPrefix
    /\ access_token = Some(TokenA)
    /\ client_credentials_manager = None
    /\ built = TRUE
    /\ panicked = FALSE
    /\ calls = [c \in {1} |-> IdleCall]
    /\ \E t \in Types, raw \in SeqsUpTo(IdAlphabet, MaxIdLen) :
            idcall = [NoIdCall EXCEPT !.type = t, !.raw = raw]

\* One invocation of get_uri(&self, _type, _id).
GetUri ==
    /\ ~panicked
    /\ idcall.uri = None
    /\ idcall' = [idcall EXCEPT !.uri = Some(get_uri(idcall.type, idcall.raw))]
    /\ UNCHANGED <<config, panicked, calls>>

\* get_uri called on the string an earlier get_uri returned.
GetUriOfUri ==
    /\ ~panicked
    /\ idcall.uri # None
    /\ idcall.uri2 = None
    /\ idcall' = [idcall EXCEPT
                    !.uri2 = Some(get_uri(idcall.type, Unwrap(idcall.uri)))]
    /\ UNCHANGED <<config, panicked, calls>>

\* get_id called on the string an earlier get_uri returned.
GetIdOfUri ==
    /\ ~panicked
    /\ idcall.uri # None
    /\ idcall.uid = None
    /\ idcall' = [idcall EXCEPT
                    !.uid = Some(get_id(idcall.type, Unwrap(idcall.uri)))]
    /\ UNCHANGED <<config, panicked, calls>>

NextId ==
    \/ GetId
    \/ GetUri
    \/ GetUriOfUri
    \/ GetIdOfUri

SpecId == InitId /\ [][NextId]_vars

(***************************************************************************)
(* Properties.                                                             *)
(***************************************************************************)
Sent(c) == calls[c].request # None

Returned(c) == calls[c].pc = "done"

Answered(c) == calls[c].pc = "done" /\ calls[c].response # None

StatusOf(c) == Unwrap(calls[c].response).status

BodyOf(c) == Unwrap(calls[c].response).body

HeaderOf(c) == Unwrap(calls[c].response).retry_after

ResultOf(c) == Unwrap(calls[c].result)

\* C1: every request the dispatcher sends carries the payload by method: GET
\* as query parameters and no body; POST, PUT, DELETE as a JSON body and
\* never in the query; any other method with no payload at all.
ThmC1 ==
    \A c \in CallIds : Sent(c) =>
        LET call == calls[c]
            req == Unwrap(call.request)
        IN  /\ req.method = call.method
            /\ call.method = "GET" =>
                    req.query = Some(call.payload) /\ req.json = None
            /\ call.method \in {"POST", "PUT", "DELETE"} =>
                    req.json = Some(call.payload) /\ req.query = None
            /\ call.method \notin WrapperMethods =>
                    req.query = None /\ req.json = None

\* A POST with payload {limit: "5"} is on the wire, as a body.
WitC1 ==
    \E c \in CallIds :
        /\ Sent(c)
        /\ calls[c].method = "POST"
        /\ Unwrap(calls[c].request).json = Some(Json(JObj([limit |-> JStr("5")])))
        /\ Unwrap(calls[c].request).query = None

\* C2: the requested URL is the configured prefix followed by the path when
\* the path has no scheme prefix, and the path itself when it has one.
CexC2 ==
    \A c \in CallIds : Sent(c) =>
        Unwrap(calls[c].request).url =
            IF StartsWith(calls[c].path, HTTP) THEN calls[c].path
            ELSE prefix \o calls[c].path

\* C3: whatever the outcome, a dispatch hands at most one request to the
\* transport before it returns.
ThmC3 == \A c \in CallIds : calls[c].nsent <= 1

\* A call that was answered 429 has returned after its one request.
WitC3 ==
    \E c \in CallIds :
        /\ Answered(c)
        /\ StatusOf(c) = TOO_MANY_REQUESTS
        /\ ~ResultOf(c).ok
        /\ calls[c].nsent = 1

\* C4: a dispatch returns Ok exactly when the response status is 2xx and the
\* body could be read, the Ok text is the body as sent, undecoded, and every
\* non-2xx response yields Err.
ThmC4 ==
    \A c \in CallIds : Returned(c) =>
        /\ ResultOf(c).ok <=>
              /\ calls[c].response # None
              /\ StatusOf(c) >= 200 /\ StatusOf(c) <= 299
              /\ BodyOf(c).readable
        /\ ResultOf(c).ok => ResultOf(c).text = BodyOf(c).text

\* A 2xx answer whose body is a JSON document came back as that document.
WitC4 ==
    \E c \in CallIds :
        /\ Answered(c)
        /\ ResultOf(c) = Ok(JsonText(WrappedNotFound))

\* C5: a failed response with status 401 classifies to Unauthorized, whatever
\* its headers and body.
ThmC5 ==
    \A c \in CallIds : Answered(c) /\ StatusOf(c) = 401 =>
        ResultOf(c) = Err(Unauthorized)

\* A 401 that carries a Retry-After header and a well-formed error body.
WitC5 ==
    \E c \in CallIds :
        /\ Answered(c)
        /\ StatusOf(c) = 401
        /\ HeaderOf(c) = Some(<<"3", "0">>)
        /\ BodyOf(c) = Body(TRUE, JsonText(WrappedNotFound))
        /\ ResultOf(c) = Err(Unauthorized)

AllDigits(h) == h # <<>> /\ \A i \in 1..Len(h) : h[i] \in Digits

\* C6: a response with status 429 classifies to RateLimited(r), never to
\* another error: r is the header's value when Retry-After is a decimal number,
\* and absent when the header is missing or is no number (a letter, a minus
\* sign, a byte that is no text).
ThmC6 ==
    \A c \in CallIds : Answered(c) /\ StatusOf(c) = 429 =>
        LET h == HeaderOf(c)
            e == ResultOf(c).err
        IN  /\ ~ResultOf(c).ok
            /\ e.tag = "RateLimited"
            /\ h = None => e.retry_after = None
            /\ h # None /\ AllDigits(Unwrap(h)) =>
                    e.retry_after = Some(DecimalValue(Unwrap(h)))
            /\ h # None /\ (\E i \in 1..Len(Unwrap(h)) :
                                Unwrap(h)[i] \notin Digits \cup {"+"}) =>
                    e.retry_after = None
            /\ h = Some(<<>>) => e.retry_after = None
            /\ \A n \in e.retry_after : n >= 0

\* 429 with Retry-After: 30 classified to RateLimited(30).
WitC6 ==
    \E c \in CallIds :
        /\ Answered(c)
        /\ StatusOf(c) = 429
        /\ HeaderOf(c) = Some(<<"3", "0">>)
        /\ ResultOf(c) = Err(RateLimited(Some(30)))

\* C7: for status 403 or 404 the classification is Api(e) when the body
\* decodes to the ApiError e and StatusCode(status), with the response's own
\* status, when it does not; no other variant arises.
ThmC7 ==
    \A c \in CallIds : Answered(c) /\ StatusOf(c) \in {403, 404} =>
        LET e == ResultOf(c).err
            parsed == ResponseJson(BodyOf(c))
        IN  /\ ~ResultOf(c).ok
            /\ e.tag \in {"Api", "StatusCode"}
            /\ parsed # None => e = Api(Unwrap(parsed))
            /\ parsed = None => e = StatusCodeErr(StatusOf(c))
            /\ BodyOf(c) = Body(TRUE, JsonText(WrappedNotFound)) =>
                    e = Api(Regular(404, "not found"))
            /\ BodyOf(c).text.k = "raw" \/ ~BodyOf(c).readable =>
                    e = StatusCodeErr(StatusOf(c))

\* A 403 whose body is no JSON fell back to StatusCode(403).
WitC7 ==
    \E c \in CallIds :
        /\ Answered(c)
        /\ StatusOf(c) = 403
        /\ BodyOf(c) = Body(TRUE, RawText("<html>"))
        /\ ResultOf(c) = Err(StatusCodeErr(403))

\* C8: any non-2xx status other than 401, 429, 403 and 404 classifies to
\* StatusCode(status) with exactly the response's status; the body is not
\* consulted, so responses that differ only in body classify alike.
ThmC8 ==
    \A c \in CallIds :
        Answered(c) /\ ~IsSuccess(StatusOf(c)) /\ StatusOf(c) \notin {401, 429, 403, 404} =>
            /\ ResultOf(c) = Err(StatusCodeErr(StatusOf(c)))
            /\ calls[c].nread = 0

\* A 400 with a well-formed error body is StatusCode(400) all the same.
WitC8 ==
    \E c \in CallIds :
        /\ Answered(c)
        /\ StatusOf(c) = 400
        /\ BodyOf(c) = Body(TRUE, JsonText(WrappedNotFound))
        /\ ResultOf(c) = Err(StatusCodeErr(400))

\* An error object with a u16 status and a string message.
WellFormed(m) ==
    /\ {"status", "message"} \subseteq DOMAIN m
    /\ DeU16(m["status"]) # None
    /\ DeString(m["message"]) # None

IsBare(body) ==
    /\ body.readable
    /\ body.text.k = "json"
    /\ body.text.j.t = "obj"
    /\ WellFormed(body.text.j.m)

IsErrorWrapped(body) ==
    /\ body.readable
    /\ body.text.k = "json"
    /\ body.text.j.t = "obj"
    /\ DOMAIN body.text.j.m = {"error"}
    /\ body.text.j.m["error"].t = "obj"
    /\ WellFormed(body.text.j.m["error"].m)

\* The error object of a bare or an "error"-wrapped body.
ErrorObjectOf(body) ==
    IF IsErrorWrapped(body) THEN body.text.j.m["error"].m ELSE body.text.j.m

CarriesStatusAndMessage(e, m) ==
    /\ e.tag = "Api"
    /\ e.err.status = m["status"].n
    /\ e.err.message = m["message"].s

\* C9 as stated: on 403/404 a bare {status, message} body and an
\* "error"-wrapped one both classify to Api with that status and message.
CexC9 ==
    \A c \in CallIds :
        /\ Answered(c)
        /\ StatusOf(c) \in {403, 404}
        /\ IsBare(BodyOf(c)) \/ IsErrorWrapped(BodyOf(c))
        => CarriesStatusAndMessage(ResultOf(c).err, ErrorObjectOf(BodyOf(c)))

\* C9, amended: on 403/404 an "error"-wrapped {status, message} body
\* classifies to Api with that status and message; a bare {status, message}
\* body does not decode and falls back to StatusCode(status).
ThmC9 ==
    \A c \in CallIds : Answered(c) /\ StatusOf(c) \in {403, 404} =>
        /\ IsErrorWrapped(BodyOf(c)) =>
              CarriesStatusAndMessage(ResultOf(c).err, ErrorObjectOf(BodyOf(c)))
        /\ IsBare(BodyOf(c)) => ResultOf(c) = Err(StatusCodeErr(StatusOf(c)))

\* A 404 with the bare body {status: 404, message: "not found"} is
\* StatusCode(404).
WitC9 ==
    \E c \in CallIds :
        /\ Answered(c)
        /\ StatusOf(c) = 404
        /\ BodyOf(c) = Body(TRUE, JsonText(BareNotFound))
        /\ ResultOf(c) = Err(StatusCodeErr(404))

\* C10: on 403/404 an error object with status, message and reason decodes
\* to Player with the reason kept, and one without reason to Regular.
CexC10 ==
    \A c \in CallIds :
        Answered(c) /\ StatusOf(c) \in {403, 404} /\ IsErrorWrapped(BodyOf(c)) =>
            LET m == ErrorObjectOf(BodyOf(c))
            IN  IF "reason" \in DOMAIN m /\ DeString(m["reason"]) # None
                THEN ResultOf(c) =
                        Err(Api(Player(m["status"].n, m["message"].s, m["reason"].s)))
                ELSE ResultOf(c) = Err(Api(Regular(m["status"].n, m["message"].s)))

HasTokenSource == access_token # None \/ client_credentials_manager # None

\* C11: when the transport delivers no response, the dispatch returns the
\* transport failure (ClientError::Request); the classifier is not invoked and
\* no body is read.
ThmC11 ==
    \A c \in CallIds : Returned(c) /\ calls[c].response = None =>
        /\ ResultOf(c) = Err(Request("send"))
        /\ calls[c].nsent = 1
        /\ calls[c].nclassified = 0
        /\ calls[c].nread = 0

\* A DELETE whose send() failed has returned.
WitC11 ==
    \E c \in CallIds :
        /\ Returned(c)
        /\ calls[c].method = "DELETE"
        /\ calls[c].response = None
        /\ ResultOf(c).err.tag = "Request"

\* C12: a dispatch on a client that has a token source ends by returning Ok or
\* one ClientError; it never ends by panicking.
CexC12 ==
    \A c \in CallIds : HasTokenSource => calls[c].pc # "panicked"

\* C13: every request handed to the transport carries Authorization equal to
\* "Bearer " followed by the token resolved for that call (the static token,
\* else the manager's answer to this call), and Content-Type application/json.
ThmC13 ==
    \A c \in CallIds : Sent(c) =>
        LET req == Unwrap(calls[c].request)
        IN  /\ calls[c].token # None
            /\ req.authorization = BearerSp \o Unwrap(calls[c].token)
            /\ req.content_type = "application/json"
            /\ access_token # None => calls[c].token = access_token
            /\ access_token = None => calls[c].token = calls[c].answer

\* A PUT sent with the token the manager answered, "t2".
WitC13 ==
    \E c \in CallIds :
        /\ Sent(c)
        /\ calls[c].method = "PUT"
        /\ calls[c].answer = Some(TokenB)
        /\ Unwrap(calls[c].request).authorization =
                <<"B","e","a","r","e","r"," ","t","2">>

\* C14: the dispatcher caches no token: on a client with no static token each
\* dispatch invokes the resolver exactly once and sends the value that
\* invocation returned, so two dispatches answered different tokens carry
\* different tokens.
ThmC14 ==
    \A c \in CallIds : access_token = None /\ Sent(c) =>
        /\ calls[c].nresolved = 1
        /\ calls[c].answer # None
        /\ Unwrap(calls[c].request).authorization = BearerSp \o Unwrap(calls[c].answer)

\* The first dispatch has returned after sending "t1"; the next one, answered
\* "t2", is on the wire with "t2".
WitC14 ==
    /\ access_token = None
    /\ calls[1].pc = "done"
    /\ calls[1].answer = Some(TokenA)
    /\ Unwrap(calls[1].request).authorization = BearerSp \o TokenA
    /\ calls[2].pc = "wait"
    /\ calls[2].answer = Some(TokenB)
    /\ Unwrap(calls[2].request).authorization = BearerSp \o TokenB

\* The token a call sends when it runs alone.
AloneToken(call) ==
    IF access_token # None THEN Unwrap(access_token) ELSE Unwrap(call.answer)

\* The request of a call that runs alone with the same inputs and answers.
AloneRequest(call) ==
    [method |-> call.method,
     url |-> IF StartsWith(call.path, HTTP) THEN call.path ELSE HardCodedBase \o call.path,
     authorization |-> BearerSp \o AloneToken(call),
     content_type |-> "application/json",
     query |-> IF call.method = "GET" THEN Some(call.payload) ELSE None,
     json |-> IF call.method = "GET" THEN None ELSE Some(call.payload)]

\* Its result, given the transport's answer.
AloneResult(call) ==
    IF call.response = None THEN Err(Request("send"))
    ELSE LET r == Unwrap(call.response)
         IN  IF IsSuccess(r.status)
             THEN (IF r.body.readable THEN Ok(r.body.text) ELSE Err(Request("body")))
             ELSE Err(from_response(r))

AloneInv ==
    \A c \in CallIds :
        /\ Sent(c) => Unwrap(calls[c].request) = AloneRequest(calls[c])
        /\ Returned(c) => ResultOf(c) = AloneResult(calls[c])

\* C17: concurrent dispatches on one client do not interfere: every step
\* leaves the configuration and every other call as they were, and each call's
\* request and result are those of the call running alone with the same
\* resolver and transport answers.
ThmC17 ==
    /\ []AloneInv
    /\ [][/\ UNCHANGED <<prefix, access_token, client_credentials_manager>>
          /\ \E c \in CallIds : \A d \in CallIds \ {c} : calls'[d] = calls[d]]_vars

\* Two dispatches in flight at once, with different tokens: one reading a
\* success text, the other an error body.
WitC17 ==
    /\ calls[1].pc = "text"
    /\ calls[2].pc = "json"
    /\ calls[1].token = Some(TokenA)
    /\ calls[2].token = Some(TokenB)
    /\ calls[1].method = "GET"
    /\ calls[2].method = "POST"

\* A call that has been polled on a client with no token source has panicked
\* in auth_headers, with nothing sent.
PanicsUnsent ==
    \A c \in CallIds : ~HasTokenSource /\ calls[c].pc \notin {"idle", "created"} =>
        /\ calls[c].pc = "panicked"
        /\ panicked
        /\ calls[c].request = None
        /\ calls[c].result = None
        /\ calls[c].nsent = 0

\* C15 as stated: a client on which a dispatch is started has at least one of
\* access_token and client_credentials_manager set (the absence is caught at
\* construction, never per call).
CexC15 == \A c \in CallIds : calls[c].pc # "idle" => HasTokenSource

\* C15, amended: a client that build() returned has at least one of the two
\* set; a dispatch can be started on a client that never passed build(), and
\* the absence of both is then detected by that call, in auth_headers, before
\* any request is sent.
ThmC15 ==
    /\ built => HasTokenSource
    /\ PanicsUnsent

\* A GET started on Spotify::default() without build() panicked in its
\* own token resolution.
WitC15 ==
    \E c \in CallIds :
        /\ ~built
        /\ ~HasTokenSource
        /\ calls[c].method = "GET"
        /\ calls[c].pc = "panicked"

\* C16: token resolution with neither a static token nor a manager panics,
\* returning no ClientError and before any request reaches the transport;
\* build() panics exactly when both are absent and otherwise returns the
\* client unchanged.
ThmC16 ==
    /\ []PanicsUnsent
    /\ [](panicked /\ (\A c \in CallIds : calls[c].pc # "panicked") => ~HasTokenSource)
    /\ [][/\ ~built /\ built' =>
                /\ HasTokenSource
                /\ ~panicked'
                /\ UNCHANGED <<prefix, access_token, client_credentials_manager, calls>>
          /\ NoCallInFlight /\ ~HasTokenSource /\ calls' = calls /\ ~panicked' =>
                ~built']_vars

\* A POST on a client with no token source panicked with nothing sent.
WitC16 ==
    \E c \in CallIds :
        /\ ~HasTokenSource
        /\ calls[c].method = "POST"
        /\ calls[c].pc = "panicked"
        /\ calls[c].nsent = 0
        /\ calls[c].result = None

\* The positions of a separator in an identifier.
Positions(s, sep) == {i \in 1..Len(s) : s[i] = sep}

Contains(s, sep) == Positions(s, sep) # {}

MaxOf(S) == CHOOSE x \in S : \A y \in S : y <= x

\* The identifier has at least two separators sep (three segments), and the
\* segment between the last two is the string of the type.
MatchesType(_type, s, sep) ==
    LET P == Positions(s, sep)
    IN  /\ Cardinality(P) >= 2
        /\ LET j == MaxOf(P)
               i == MaxOf(P \ {j})
           IN  SubSeq(s, i + 1, j - 1) = TypeAsStr(_type)

\* What follows the last separator sep.
AfterLast(s, sep) == SubSeq(s, MaxOf(Positions(s, sep)) + 1, Len(s))

IdReturned == idcall.id # None

\* C18: get_id returns its input unchanged for every type and every input
\* that contains neither ':' nor '/'.
ThmC18 ==
    IdReturned /\ ~Contains(idcall.raw, COLON) /\ ~Contains(idcall.raw, SLASH) =>
        idcall.id = Some(idcall.raw)

\* get_id(Track, "spotifyx") returned "spotifyx".
WitC18 ==
    /\ idcall.type = "Track"
    /\ idcall.raw = <<"spotify", "x">>
    /\ idcall.id = Some(<<"spotify", "x">>)

\* C19: for an input whose ':' split has at least 3 segments with the
\* second-to-last equal to the string of the expected type, get_id returns
\* exactly the last ':' segment.
ThmC19 ==
    IdReturned /\ MatchesType(idcall.type, idcall.raw, COLON) =>
        idcall.id = Some(AfterLast(idcall.raw, COLON))

\* get_id(Track, "spotify:track:x") returned "x".
WitC19 ==
    /\ idcall.type = "Track"
    /\ idcall.raw = <<"spotify", COLON, "track", COLON, "x">>
    /\ idcall.id = Some(<<"x">>)

\* C20 as stated: an input that contains ':' and is no type-matching colon
\* URI is returned unchanged, also when it contains '/'.
CexC20 ==
    IdReturned /\ Contains(idcall.raw, COLON)
               /\ ~MatchesType(idcall.type, idcall.raw, COLON) =>
        idcall.id = Some(idcall.raw)

\* C20, amended: for an input that contains ':' and is no type-matching colon
\* URI, get_id goes on to the '/' rule: when the '/' split has at least 3
\* segments with the second-to-last equal to the string of the type it returns
\* the last '/' segment, and otherwise the input unchanged (so an input with
\* ':' and without '/' is returned unchanged).
ThmC20 ==
    IdReturned /\ Contains(idcall.raw, COLON)
               /\ ~MatchesType(idcall.type, idcall.raw, COLON) =>
        /\ MatchesType(idcall.type, idcall.raw, SLASH) =>
                idcall.id = Some(AfterLast(idcall.raw, SLASH))
        /\ ~MatchesType(idcall.type, idcall.raw, SLASH) =>
                idcall.id = Some(idcall.raw)

\* get_id(Album, ":/album/x"), two ':' segments, returned "x".
WitC20 ==
    /\ idcall.type = "Album"
    /\ idcall.raw = <<COLON, SLASH, "album", SLASH, "x">>
    /\ idcall.id = Some(<<"x">>)

DelimiterFree(s) == ~Contains(s, COLON) /\ ~Contains(s, SLASH)

\* C21: for an input without ':' whose '/' split has at least 3 segments,
\* get_id returns the last '/' segment when the second-to-last segment is the
\* string of the expected type, and the input unchanged otherwise.
ThmC21 ==
    IdReturned /\ ~Contains(idcall.raw, COLON)
               /\ Cardinality(Positions(idcall.raw, SLASH)) >= 2 =>
        /\ MatchesType(idcall.type, idcall.raw, SLASH) =>
                idcall.id = Some(AfterLast(idcall.raw, SLASH))
        /\ ~MatchesType(idcall.type, idcall.raw, SLASH) =>
                idcall.id = Some(idcall.raw)

\* get_id(Album, "spotify/album/x") returned "x".
WitC21 ==
    /\ idcall.type = "Album"
    /\ idcall.raw = <<"spotify", SLASH, "album", SLASH, "x">>
    /\ idcall.id = Some(<<"x">>)

UriReturned == idcall.uri # None

\* "spotify:" + type + ":" + s
UriOf(_type, s) == <<"spotify", COLON>> \o TypeAsStr(_type) \o <<COLON>> \o s

\* C22: get_uri returns "spotify:" + the type's string + ":" + what get_id
\* returns for the same arguments; a bare id X gives "spotify:<t>:X" and a
\* URI "spotify:<t>:X" of the same type comes back unchanged.
ThmC22 ==
    UriReturned =>
        /\ IdReturned => idcall.uri = Some(UriOf(idcall.type, Unwrap(idcall.id)))
        /\ DelimiterFree(idcall.raw) =>
                idcall.uri = Some(UriOf(idcall.type, idcall.raw))
        /\ LET head == UriOf(idcall.type, <<>>)
           IN  /\ StartsWith(idcall.raw, head)
               /\ DelimiterFree(SubSeq(idcall.raw, Len(head) + 1, Len(idcall.raw)))
               => idcall.uri = Some(idcall.raw)

\* get_uri(Track, "spotify:track:x") returned its argument, after
\* get_id(Track, "spotify:track:x") returned "x".
WitC22 ==
    /\ idcall.type = "Track"
    /\ idcall.raw = <<"spotify", COLON, "track", COLON, "x">>
    /\ idcall.id = Some(<<"x">>)
    /\ idcall.uri = Some(idcall.raw)

\* C23 as stated: get_uri applied to its own result returns that result, for
\* every type and every input.
CexC23 == idcall.uri2 # None => idcall.uri2 = idcall.uri

\* C23, amended: get_uri applied to its own result returns that result exactly
\* when get_id returns a string without ':' for the input; for an input that
\* get_id returns with a ':' (a mismatching colon URI, a malformed input) the
\* second application returns a different string.
ThmC23 ==
    idcall.uri2 # None /\ IdReturned =>
        (idcall.uri2 = idcall.uri <=> ~Contains(Unwrap(idcall.id), COLON))

\* get_uri(Track, "x:album:x") returned "spotify:track:x:album:x", and get_uri
\* of that returned a longer string.
WitC23 ==
    /\ idcall.type = "Track"
    /\ idcall.raw = <<"x", COLON, "album", COLON, "x">>
    /\ idcall.id = Some(idcall.raw)
    /\ idcall.uri = Some(UriOf("Track", idcall.raw))
    /\ idcall.uri2 = Some(UriOf("Track", UriOf("Track", idcall.raw)))

\* C24 as stated: get_id of what get_uri returned equals get_id of the
\* input, for every type and every input.
CexC24 == idcall.uid # None /\ IdReturned => idcall.uid = idcall.id

\* C24, amended: get_id of what get_uri returned equals get_id of the input
\* exactly when get_id returns a string without ':' for the input.
ThmC24 ==
    idcall.uid # None /\ IdReturned =>
        (idcall.uid = idcall.id <=> ~Contains(Unwrap(idcall.id), COLON))

\* get_id(Track, "track:x") returned "track:x", and get_id of
\* "spotify:track:track:x" returned "x".
WitC24 ==
    /\ idcall.type = "Track"
    /\ idcall.raw = <<"track", COLON, "x">>
    /\ idcall.id = Some(idcall.raw)
    /\ idcall.uri = Some(UriOf("Track", idcall.raw))
    /\ idcall.uid = Some(<<"x">>)

\* C25 as stated: every string get_id returns contains neither ':' nor '/'.
CexC25 == IdReturned => DelimiterFree(Unwrap(idcall.id))

\* C25, amended: the string get_id returns has no ':' when the ':' rule
\* matched and no '/' when only the '/' rule matched, and is the input itself,
\* delimiters included, when neither matched; it is free of both delimiters
\* exactly when the input is bare, or matches the ':' rule with no '/' after
\* the last ':', or matches only the '/' rule with no ':' after the last '/'.
ThmC25 ==
    IdReturned =>
        LET byColon == MatchesType(idcall.type, idcall.raw, COLON)
            bySlash == ~byColon /\ MatchesType(idcall.type, idcall.raw, SLASH)
        IN  /\ byColon => ~Contains(Unwrap(idcall.id), COLON)
            /\ bySlash => ~Contains(Unwrap(idcall.id), SLASH)
            /\ ~byColon /\ ~bySlash => idcall.id = Some(idcall.raw)
            /\ DelimiterFree(Unwrap(idcall.id)) <=>
                    \/ DelimiterFree(idcall.raw)
                    \/ byColon /\ ~Contains(AfterLast(idcall.raw, COLON), SLASH)
                    \/ bySlash /\ ~Contains(AfterLast(idcall.raw, SLASH), COLON)

\* get_id(Artist, "spotify:album:x") returned its argument, ':' included.
WitC25 ==
    /\ idcall.type = "Artist"
    /\ idcall.raw = <<"spotify", COLON, "album", COLON, "x">>
    /\ idcall.id = Some(idcall.raw)
    /\ Contains(Unwrap(idcall.id), COLON)

\* Where a call stands agrees with the steps it has taken: nothing is sent
\* without a token, no response is held without a request sent, and no body
\* is read without a response whose status asks for that read.
StepOrder(call) ==
    /\ call.pc \in {"idle", "created", "resolving"} =>
            call.nsent = 0 /\ call.request = None /\ call.response = None
                           /\ call.nread = 0
    /\ call.nsent >= 1 => call.token # None /\ call.request # None
    /\ call.pc = "wait" => call.nsent = 1 /\ call.response = None /\ call.nread = 0
    /\ call.response # None => call.nsent = 1
    /\ call.pc = "text" =>
            call.response # None /\ call.nread = 0
                                 /\ IsSuccess(Unwrap(call.response).status)
    /\ call.pc = "json" =>
            call.response # None /\ call.nread = 0
                                 /\ Unwrap(call.response).status \in {FORBIDDEN, NOT_FOUND}
    /\ call.nread >= 1 =>
            /\ call.nread = 1
            /\ call.response # None
            /\ \/ IsSuccess(Unwrap(call.response).status)
               \/ Unwrap(call.response).status \in {FORBIDDEN, NOT_FOUND}

\* C26: inside one dispatch the token is resolved before the request is
\* handed to the transport, the request is sent before a response is held,
\* and a body is read only after the response has arrived (the text of a 2xx
\* response, the error body of a 403 or 404); no step happens out of order.
ThmC26 ==
    /\ [](\A c \in CallIds : StepOrder(calls[c]))
    /\ [][\A c \in CallIds :
            /\ calls'[c].nsent > calls[c].nsent =>
                    /\ calls[c].pc \in {"created", "resolving"}
                    /\ calls[c].pc = "created" => access_token # None
                    /\ calls'[c].token # None
                    /\ calls[c].response = None
            /\ calls[c].response = None /\ calls'[c].response # None =>
                    calls[c].pc = "wait" /\ calls[c].nsent = 1
            /\ calls'[c].nread > calls[c].nread =>
                    calls[c].response # None /\ calls[c].pc \in {"text", "json"}
         ]_vars

\* A call whose token came from the manager was answered 404, and its error
\* body has been read.
WitC26 ==
    \E c \in CallIds :
        /\ Answered(c)
        /\ calls[c].nresolved = 1
        /\ calls[c].nsent = 1
        /\ StatusOf(c) = NOT_FOUND
        /\ calls[c].nread = 1

\* C29: with a static access_token set, every dispatch uses it and the
\* credentials manager is never invoked, also when one is configured; the
\* manager is invoked only when access_token is absent.
ThmC29 ==
    \A c \in CallIds :
        /\ access_token # None /\ calls[c].pc \notin {"idle", "created"} =>
                /\ calls[c].pc # "resolving"
                /\ calls[c].nresolved = 0
                /\ calls[c].answer = None
                /\ calls[c].token = access_token
                /\ Sent(c) => Unwrap(calls[c].request).authorization =
                                    BearerSp \o Unwrap(access_token)
        /\ calls[c].pc = "resolving" \/ calls[c].nresolved > 0 =>
                access_token = None /\ client_credentials_manager # None

\* A client with both a static token and a manager sent a request with the
\* static token, the manager never asked.
WitC29 ==
    \E c \in CallIds :
        /\ access_token = Some(TokenB)
        /\ client_credentials_manager # None
        /\ calls[c].pc = "done"
        /\ calls[c].nresolved = 0
        /\ Unwrap(calls[c].request).authorization = BearerSp \o TokenB

\* The content of the variant a wrapped error document names.
VariantContent(body) ==
    LET m == body.text.j.m IN m[CHOOSE key \in DOMAIN m : TRUE]

\* C30: an Api error carries the status and the message of the response body
\* as they stand there, whatever the HTTP status of the response: a 404 whose
\* body states status 403 classifies to Api with status 403.
ThmC30 ==
    \A c \in CallIds :
        Answered(c) /\ ~ResultOf(c).ok /\ ResultOf(c).err.tag = "Api" =>
            LET e == ResultOf(c).err.err
                content == VariantContent(BodyOf(c))
            IN  /\ content.t = "obj" =>
                        /\ e.status = content.m["status"].n
                        /\ e.message = content.m["message"].s
                /\ content.t = "arr" =>
                        /\ e.status = content.a[1].n
                        /\ e.message = content.a[2].s

\* A 404 response whose "error" body states 403 has classified to Api with
\* status 403.
WitC30 ==
    \E c \in CallIds :
        /\ Answered(c)
        /\ StatusOf(c) = 404
        /\ BodyOf(c) = Body(TRUE, JsonText(Wrap("error",
                JObj([status |-> JNum(403), message |-> JStr("not found")]))))
        /\ ResultOf(c) = Err(Api(Regular(403, "not found")))

\* A JSON document ApiError decodes from: one key naming a variant, over an
\* object or an array with the variant's fields.
DecodesAsApiError(j) ==
    /\ j.t = "obj"
    /\ Cardinality(DOMAIN j.m) = 1
    /\ LET key == CHOOSE k \in DOMAIN j.m : TRUE
           v == j.m[key]
       IN  \/ /\ key \in {"error", "Regular"}
              /\ \/ v.t = "obj" /\ WellFormed(v.m)
                 \/ /\ v.t = "arr"
                    /\ Len(v.a) = 2
                    /\ DeU16(v.a[1]) # None
                    /\ DeString(v.a[2]) # None
           \/ /\ key = "Player"
              /\ \/ /\ v.t = "obj"
                    /\ WellFormed(v.m)
                    /\ "reason" \in DOMAIN v.m
                    /\ DeString(v.m["reason"]) # None
                 \/ /\ v.t = "arr"
                    /\ Len(v.a) = 3
                    /\ DeU16(v.a[1]) # None
                    /\ DeString(v.a[2]) # None
                    /\ DeString(v.a[3]) # None

Decodes(target, text) ==
    /\ text.k = "json"
    /\ target = "ApiError" => DecodesAsApiError(text.j)

\* C28: ParseJSON comes only from decoding the text of a successful response:
\* a dispatch never returns it (a 403/404 whose body does not decode returns
\* StatusCode), and convert_result returns it exactly when the text does not
\* decode into the type asked for.
ThmC28 ==
    \A c \in CallIds :
        /\ calls[c].result # None => ResultOf(c) # Err(ParseJSON)
        /\ /\ Answered(c)
           /\ StatusOf(c) \in {FORBIDDEN, NOT_FOUND}
           /\ ~(BodyOf(c).readable /\ Decodes("ApiError", BodyOf(c).text))
           => ResultOf(c) = Err(StatusCodeErr(StatusOf(c)))
        /\ calls[c].converted # None =>
                /\ Answered(c)
                /\ IsSuccess(StatusOf(c))
                /\ ResultOf(c).ok
                /\ Unwrap(calls[c].converted) = Err(ParseJSON)
                        <=> ~Decodes(calls[c].target, ResultOf(c).text)

\* The text of a 200 response, a bare error object, did not decode into
\* ApiError: convert_result returned ParseJSON.
WitC28 ==
    \E c \in CallIds :
        /\ Answered(c)
        /\ StatusOf(c) = 200
        /\ ResultOf(c) = Ok(JsonText(BareNotFound))
        /\ calls[c].target = "ApiError"
        /\ calls[c].converted = Some(Err(ParseJSON))

\* C27 as stated: a dispatch started on a client with a token source, whose
\* collaborators all answer, eventually returns a result.
CexC27 ==
    \A c \in {1} :
        (calls[c].pc = "created" /\ HasTokenSource) ~> (calls[c].pc = "done")

====
